---------------------------- MODULE Spec2Model ----------------------------
(***************************************************************************)
(* Model of pyaws.tags.tag_utils and pyaws.utils.usermessage.              *)
(*                                                                         *)
(* A behaviour is one call of one helper: the initial state holds the      *)
(* helper's name and its arguments, the actions run it.  The pure helpers  *)
(* are operators that follow the loops of the Python code; delete_tags,    *)
(* which talks to the EC2 API, is a small process whose steps are the      *)
(* request, the answer of the service and the return.                      *)
(*                                                                         *)
(* Python values are tagged records [type, val] wherever the code compares *)
(* values of different types; a str is a sequence of one-character         *)
(* strings, a tag is a record [Key, Value] and a dict that has no 'Key'    *)
(* entry is a record [Value].                                              *)
(***************************************************************************)
EXTENDS Integers, Sequences, FiniteSets, TLC

VARIABLES
    op,         \* name of the helper that is called
    args,       \* the arguments of the call
    ret,        \* its outcome: [exc |-> "none", val |-> v] or [exc |-> name]
    pc,         \* "call": not yet run (for delete_tags, top of the for loop);
                \* "await": delete_tags waits for the service; "done": returned
    dt_issued,  \* delete_tags: the requests sent to client.delete_tags
    dt_answers, \* delete_tags: what the service answered to each request
    dt_log,     \* delete_tags: the records written to the logger
    stdout,     \* stdout_message: what was printed
    um_log      \* stdout_message: what was forwarded to the logger

vars == <<op, args, ret, pc, dt_issued, dt_answers, dt_log, stdout, um_log>>

----------------------------------------------------------------------------
(* Bounds of the model *)

MaxTags == 2        \* longest tag list given to exclude/filter/divide
MaxArgs == 2        \* most keys given as *args
NumKeys == 2        \* distinct keys of those tags
NumValues == 2      \* distinct tag values
MaxDicts == 3       \* longest list given to remove_duplicates
MaxKeyLen == 2      \* longest key given to valid_tags
MaxValidTags == 2   \* longest tag list given to valid_tags
MaxIds == 2         \* longest resourceIds list

HTTP_OK == 200

----------------------------------------------------------------------------
(* Outcomes of a call *)

Return(v) == [exc |-> "none", val |-> v]
Raise(e) == [exc |-> e]

(* Python values whose type matters *)
PyStr(s) == [type |-> "str", val |-> s]
PyInt(n) == [type |-> "int", val |-> n]
PyBool(b) == [type |-> "bool", val |-> b]
PyTuple(t) == [type |-> "tuple", val |-> t]
PyNone == [type |-> "NoneType", val |-> "None"]

\* == between two Python values: values of different types are never equal
PyEq(x, y) == x.type = y.type /\ x.val = y.val

SeqsUpTo(S, n) == UNION {[1..m -> S] : m \in 0..n}

----------------------------------------------------------------------------
(* The inputs *)

Values == 1..NumValues

\* the keys "a", "aa", ... of the tags given to the list helpers
OpKeys == {[j \in 1..i |-> "a"] : i \in 1..NumKeys}
OpTags == [Key : OpKeys, Value : Values]

\* dicts for remove_duplicates: tags, and dicts without a 'Key' entry
Dicts == OpTags \cup [Value : Values]

\* the keys given to valid_tags: every string over KeyChars
KeyChars == {"a", ":"}
ValidKeys == SeqsUpTo(KeyChars, MaxKeyLen)
KeyedTags == [Key : ValidKeys, Value : Values]

ResourceIds == {"vol-1", "vol-2"}
TagsToDelete == {<<>>, <<[Key |-> <<"a">>, Value |-> 1]>>}
StatusCodes == {HTTP_OK, 400}

----------------------------------------------------------------------------
(* list methods *)

ListContains(l, x) == \E i \in 1..Len(l) : l[i] = x

ListIndex(l, x) ==
    CHOOSE i \in 1..Len(l) : l[i] = x /\ \A j \in 1..(i - 1) : l[j] # x

\* list.remove(x): drops the first element equal to x; the caller checks
\* ListContains first, ValueError otherwise
ListRemove(l, x) ==
    LET i == ListIndex(l, x)
    IN  SubSeq(l, 1, i - 1) \o SubSeq(l, i + 1, Len(l))

----------------------------------------------------------------------------
(* exclude_tags / filter_tags *)

RECURSIVE exclude_loop(_, _, _, _, _)
exclude_loop(tag_list, keys, clean, i, j) ==
    IF i > Len(tag_list) THEN Return(clean)
    ELSE IF j > Len(keys) THEN exclude_loop(tag_list, keys, clean, i + 1, 1)
    ELSE IF keys[j] = tag_list[i].Key
         THEN IF ListContains(clean, tag_list[i])
              THEN exclude_loop(tag_list, keys,
                                ListRemove(clean, tag_list[i]), i, j + 1)
              ELSE Raise("ValueError")
         ELSE exclude_loop(tag_list, keys, clean, i, j + 1)

exclude_tags(tag_list, keys) == exclude_loop(tag_list, keys, tag_list, 1, 1)

RECURSIVE filter_loop(_, _, _, _, _)
filter_loop(tag_list, keys, clean, i, j) ==
    IF i > Len(tag_list) THEN Return(clean)
    ELSE IF j > Len(keys) THEN filter_loop(tag_list, keys, clean, i + 1, 1)
    ELSE IF keys[j] = tag_list[i].Key
         THEN IF ListContains(clean, tag_list[i])
              THEN filter_loop(tag_list, keys,
                               ListRemove(clean, tag_list[i]), i, j + 1)
              ELSE Raise("ValueError")
         ELSE filter_loop(tag_list, keys, clean, i, j + 1)

filter_tags(tag_list, keys) == filter_loop(tag_list, keys, tag_list, 1, 1)

----------------------------------------------------------------------------
(* divide_tags: a dict is the sequence of its items <<k, v>> in insertion   *)
(* order                                                                   *)

DictHas(d, k) == \E i \in 1..Len(d) : d[i][1] = k

DictSet(d, k, v) ==
    IF DictHas(d, k)
    THEN [i \in 1..Len(d) |-> IF d[i][1] = k THEN <<k, v>> ELSE d[i]]
    ELSE Append(d, <<k, v>>)

DictPop(d, k) == SelectSeq(d, LAMBDA it : it[1] # k)

RECURSIVE DictFromTags(_, _)
DictFromTags(tag_list, i) ==
    IF i = 0 THEN <<>>
    ELSE DictSet(DictFromTags(tag_list, i - 1),
                 tag_list[i].Key, tag_list[i].Value)

TagsFromDict(d) == [i \in 1..Len(d) |-> [Key |-> d[i][1], Value |-> d[i][2]]]

RECURSIVE divide_loop(_, _, _, _, _, _)
divide_loop(tag_dict, keys, matching, residual, a, b) ==
    IF a > Len(keys) THEN Return(<<matching, TagsFromDict(residual)>>)
    ELSE IF b > Len(tag_dict)
         THEN divide_loop(tag_dict, keys, matching, residual, a + 1, 1)
    ELSE IF keys[a] = tag_dict[b][1]
         THEN divide_loop(tag_dict, keys,
                  Append(matching, [Key |-> tag_dict[b][1],
                                    Value |-> tag_dict[b][2]]),
                  residual, a, b + 1)
    ELSE IF DictHas(residual, keys[a])
         THEN divide_loop(tag_dict, keys, matching,
                          DictPop(residual, keys[a]), a, b + 1)
    ELSE \* KeyError: continue
         divide_loop(tag_dict, keys, matching, residual, a, b + 1)

divide_tags(tag_list, keys) ==
    LET tag_dict == DictFromTags(tag_list, Len(tag_list))
    IN  divide_loop(tag_dict, keys, <<>>, tag_dict, 1, 1)

----------------------------------------------------------------------------
(* remove_duplicates *)

HasKey(d) == "Key" \in DOMAIN d

\* a dedup that only looks at the key appended last
KeySeenLast(key, key_list) ==
    key_list # <<>> /\ key_list[Len(key_list)] = key

KeySeen(key, key_list) == \E i \in 1..Len(key_list) : key_list[i] = key

RECURSIVE dedup_items(_, _, _)
dedup_items(list, clean_list, i) ==
    IF i > Len(list) THEN Return(clean_list)
    ELSE IF clean_list # <<>>
         THEN IF ~ListContains(clean_list, list[i])
              THEN dedup_items(list, Append(clean_list, list[i]), i + 1)
              ELSE dedup_items(list, clean_list, i + 1)
         ELSE dedup_items(list, Append(clean_list, list[i]), i + 1)

RECURSIVE dedup_keys(_, _, _, _)
dedup_keys(list, clean_list, key_list, i) ==
    IF i > Len(list) THEN Return(clean_list)
    ELSE IF ~HasKey(list[i])
         THEN \* KeyError: the handler goes over the whole list again
              dedup_items(list, clean_list, 1)
    ELSE IF ~KeySeen(list[i].Key, key_list)
         THEN dedup_keys(list, Append(clean_list, list[i]),
                         Append(key_list, list[i].Key), i + 1)
    ELSE dedup_keys(list, clean_list, key_list, i + 1)

remove_duplicates(list) == dedup_keys(list, <<>>, <<>>, 1)

----------------------------------------------------------------------------
(* valid_tags *)

\* a test of the first character only
StrStartsWith(c, s) == s # <<>> /\ s[1] = c

\* c in s, for a one-character c
StrContains(c, s) == \E p \in 1..Len(s) : s[p] = c

RECURSIVE valid_loop(_, _)
valid_loop(tag_list, i) ==
    IF i > Len(tag_list) THEN Return(PyBool(TRUE))
    ELSE IF StrContains(":", tag_list[i].Key) THEN Return(PyBool(FALSE))
    ELSE valid_loop(tag_list, i + 1)

valid_tags(tag_list) == valid_loop(tag_list, 1)

----------------------------------------------------------------------------
(* usermessage: str methods *)

LowerCase == <<"a", "b", "c", "d", "e", "f", "g", "h", "i", "j", "k", "l", "m",
               "n", "o", "p", "q", "r", "s", "t", "u", "v", "w", "x", "y", "z">>
UpperCase == <<"A", "B", "C", "D", "E", "F", "G", "H", "I", "J", "K", "L", "M",
               "N", "O", "P", "Q", "R", "S", "T", "U", "V", "W", "X", "Y", "Z">>

UpperChar(c) ==
    IF \E i \in 1..Len(LowerCase) : LowerCase[i] = c
    THEN UpperCase[CHOOSE i \in 1..Len(LowerCase) : LowerCase[i] = c]
    ELSE c

\* str.upper()
StrUpper(s) == [i \in 1..Len(s) |-> UpperChar(s[i])]

Digits == <<"0", "1", "2", "3", "4", "5", "6", "7", "8", "9">>

IsDigit(c) == \E i \in 1..Len(Digits) : Digits[i] = c
DigitValue(c) == (CHOOSE i \in 1..Len(Digits) : Digits[i] = c) - 1

RECURSIVE ParseDigits(_, _)
ParseDigits(s, n) ==
    IF n = 0 THEN 0 ELSE 10 * ParseDigits(s, n - 1) + DigitValue(s[n])

\* int(x) for an int, a str of decimal digits, any other str, or None
PyIntOf(x) ==
    IF x.type = "int" THEN Return(x.val)
    ELSE IF x.type = "str"
         THEN IF x.val # <<>> /\ \A i \in 1..Len(x.val) : IsDigit(x.val[i])
              THEN Return(ParseDigits(x.val, Len(x.val)))
              ELSE Raise("ValueError")
    ELSE Raise("TypeError")

\* x in tup, for a tuple of Python values
PyIn(x, tup) == \E i \in 1..Len(tup) : PyEq(x, tup[i])

----------------------------------------------------------------------------
(* usermessage: the module *)

critical_status ==
    <<PyStr(<<"E", "R", "R", "O", "R">>),
      PyStr(<<"F", "A", "I", "L">>),
      PyStr(<<"W", "T", "F">>),
      PyStr(<<"S", "T", "O", "P">>),
      PyStr(<<"H", "A", "L", "T">>),
      PyStr(<<"E", "X", "I", "T">>),
      PyStr(<<"F", "*", "C", "K">>)>>

warning_status ==
    <<PyStr(<<"W", "A", "R", "N">>),
      PyStr(<<"W", "A", "R", "N", "I", "N", "G">>),
      PyStr(<<"C", "A", "U", "T", "I", "O", "N">>),
      PyStr(<<"S", "L", "O", "W">>)>>

\* log_message(label, msg): the level the message is logged at
log_message(label, msg) ==
    IF PyIn(label, critical_status) THEN [level |-> "critical", msg |-> msg]
    ELSE IF PyIn(label, warning_status) THEN [level |-> "warning", msg |-> msg]
    ELSE [level |-> "info", msg |-> msg]

\* what print() receives
Notice == [kind |-> "prefix notice"]
Problem == [kind |-> "problem notice"]
Header(colour, bold, wide, prefix, tabspaces) ==
    [colour |-> colour, bold |-> bold, wide |-> wide,
     prefix |-> prefix, tabspaces |-> tabspaces]
Line(header, message, multiline) ==
    [kind |-> "message", header |-> header, text |-> message,
     blank_lines |-> ~multiline]

\* the outcome of a call: what it returns or raises, what it printed and
\* what it logged
Outcome(r, printed, logged) == [ret |-> r, out |-> printed, log |-> logged]

\* prefix not in (critical_status, warning_status)
PrefixNotInStatusLists(prefix) ==
    ~PyIn(prefix, <<PyTuple(critical_status), PyTuple(warning_status)>>)

\* lines 90-109: the header of the message
HeaderOf(prefix, sev, tabspaces) ==
    IF \/ PyIn(prefix, critical_status)
       \/ PyEq(sev, PyStr(<<"C", "R", "I", "T", "I", "C", "A", "L">>))
    THEN Header("RED", FALSE, FALSE, prefix, tabspaces)
    ELSE IF PyIn(sev, warning_status)
    THEN Header("ORANGE", FALSE, FALSE, prefix, tabspaces)
    ELSE IF PyEq(prefix, PyStr(<<"O", "K">>))
    THEN Header("GREEN", TRUE, TRUE, prefix, tabspaces)
    ELSE IF PyIn(prefix, <<PyStr(<<"D", "O", "N", "E">>),
                           PyStr(<<"G", "O", "O", "D">>)>>)
    THEN Header("GREEN", TRUE, FALSE, prefix, tabspaces)
    ELSE Header("DARKCYAN", FALSE, FALSE, prefix, tabspaces)

\* lines 88-121: the try block and its handler.  str(message) raises for an
\* object whose __str__ raises.
PrintMessage(message, prefix, sev, tabspaces, multiline, logging) ==
    IF message.type # "str"
    THEN Outcome(Return(PyBool(FALSE)), <<Problem>>, <<>>)
    ELSE Outcome(Return(PyBool(TRUE)),
                 <<Line(HeaderOf(prefix, sev, tabspaces),
                        message, multiline)>>,
                 IF logging THEN <<log_message(prefix, message)>> ELSE <<>>)

stdout_message(message, prefix0, quiet, multiline, indent, severity, logging) ==
    IF prefix0.type # "str" THEN Outcome(Raise("AttributeError"), <<>>, <<>>)
    ELSE
    LET prefix == PyStr(StrUpper(prefix0.val))
        tabspaces == PyIntOf(indent)
    IN  IF tabspaces.exc # "none" THEN Outcome(tabspaces, <<>>, <<>>)
        ELSE IF quiet THEN Outcome(Return(PyBool(TRUE)), <<>>, <<>>)
        ELSE IF severity.type # "str"
        THEN Outcome(Raise("AttributeError"), <<>>, <<>>)
        ELSE
        LET sev == PyStr(StrUpper(severity.val))
        IN  IF sev.val # <<>> /\ PrefixNotInStatusLists(prefix)
            THEN Outcome(Return(PyBool(FALSE)), <<Notice>>, <<>>)
            ELSE PrintMessage(message, prefix, sev, tabspaces.val,
                              multiline, logging)

\* the arguments given to stdout_message (tuples: the values are of
\* different types)
Prefixes ==
    <<PyStr(<<"I", "N", "F", "O">>),
     PyStr(<<"i", "n", "f", "o">>),
     PyStr(<<"E", "R", "R", "O", "R">>),
     PyStr(<<"e", "r", "r", "o", "r">>),
     PyStr(<<"F", "A", "I", "L">>),
     PyStr(<<"W", "A", "R", "N">>),
     PyStr(<<"w", "a", "r", "n">>),
     PyStr(<<"C", "A", "U", "T", "I", "O", "N">>),
     PyStr(<<"O", "K">>),
     PyStr(<<"o", "k">>),
     PyStr(<<"D", "O", "N", "E">>),
     PyStr(<<"N", "O", "T", "E">>),
     PyNone>>
Severities ==
    <<PyStr(<<>>),
     PyStr(<<"C", "R", "I", "T", "I", "C", "A", "L">>),
     PyStr(<<"c", "r", "i", "t", "i", "c", "a", "l">>),
     PyStr(<<"w", "a", "r", "n">>),
     PyStr(<<"W", "A", "R", "N", "I", "N", "G">>),
     PyStr(<<"l", "o", "w">>),
     PyNone>>
Indents == <<PyInt(4), PyInt(0), PyStr(<<"1", "2">>), PyStr(<<"x">>), PyNone>>
Messages == <<PyStr(<<"h", "i">>), [type |-> "object", val |-> "__str__ raises"]>>

----------------------------------------------------------------------------
(* The calls of the pure helpers *)

Unset == [exc |-> "pending"]

CallExcludeTags ==
    /\ pc = "call" /\ op = "exclude_tags"
    /\ ret' = exclude_tags(args.tag_list, args.keys)
    /\ pc' = "done"
    /\ UNCHANGED <<op, args, dt_issued, dt_answers, dt_log, stdout, um_log>>

CallFilterTags ==
    /\ pc = "call" /\ op = "filter_tags"
    /\ ret' = filter_tags(args.tag_list, args.keys)
    /\ pc' = "done"
    /\ UNCHANGED <<op, args, dt_issued, dt_answers, dt_log, stdout, um_log>>

CallDivideTags ==
    /\ pc = "call" /\ op = "divide_tags"
    /\ ret' = divide_tags(args.tag_list, args.keys)
    /\ pc' = "done"
    /\ UNCHANGED <<op, args, dt_issued, dt_answers, dt_log, stdout, um_log>>

CallRemoveDuplicates ==
    /\ pc = "call" /\ op = "remove_duplicates"
    /\ ret' = remove_duplicates(args.list)
    /\ pc' = "done"
    /\ UNCHANGED <<op, args, dt_issued, dt_answers, dt_log, stdout, um_log>>

CallValidTags ==
    /\ pc = "call" /\ op = "valid_tags"
    /\ ret' = valid_tags(args.tag_list)
    /\ pc' = "done"
    /\ UNCHANGED <<op, args, dt_issued, dt_answers, dt_log, stdout, um_log>>

----------------------------------------------------------------------------
(* stdout_message *)

CallStdoutMessage ==
    /\ pc = "call" /\ op = "stdout_message"
    /\ LET o == stdout_message(args.message, args.prefix, args.quiet,
                               args.multiline, args.indent, args.severity,
                               args.logging)
       IN  /\ ret' = o.ret
           /\ stdout' = o.out
           /\ um_log' = o.log
    /\ pc' = "done"
    /\ UNCHANGED <<op, args, dt_issued, dt_answers, dt_log>>

----------------------------------------------------------------------------
(* delete_tags *)

\* for resourceid in resourceIds: client.delete_tags(...)
\* No iteration of the loop ends without a return, so the loop is only ever
\* at its first element.
DeleteTagsRequest ==
    /\ pc = "call" /\ op = "delete_tags"
    /\ Len(dt_issued) < Len(args.resourceIds)
    /\ dt_issued' = Append(dt_issued,
                           [Resources |-> <<args.resourceIds[Len(dt_issued) + 1]>>,
                            Tags |-> args.tags])
    /\ pc' = "await"
    /\ UNCHANGED <<op, args, ret, dt_answers, dt_log, stdout, um_log>>

\* the for loop has nothing to iterate: the function ends without a return
\* statement
DeleteTagsFallThrough ==
    /\ pc = "call" /\ op = "delete_tags"
    /\ Len(dt_issued) >= Len(args.resourceIds)
    /\ ret' = Return(PyNone)
    /\ pc' = "done"
    /\ UNCHANGED <<op, args, dt_issued, dt_answers, dt_log, stdout, um_log>>

DeleteTagsResponse ==
    /\ pc = "await"
    /\ \E status \in StatusCodes :
          /\ dt_answers' = Append(dt_answers, PyInt(status))
          /\ IF status = HTTP_OK
             THEN /\ dt_log' = Append(dt_log, "info")
                  /\ ret' = Return(PyBool(TRUE))
             ELSE /\ dt_log' = Append(dt_log, "warning")
                  /\ ret' = Return(PyBool(FALSE))
    /\ pc' = "done"
    /\ UNCHANGED <<op, args, dt_issued, stdout, um_log>>

DeleteTagsClientError ==
    /\ pc = "await"
    /\ dt_answers' = Append(dt_answers, PyStr("ClientError"))
    /\ dt_log' = Append(dt_log, "critical")
    /\ ret' = Return(PyBool(FALSE))
    /\ pc' = "done"
    /\ UNCHANGED <<op, args, dt_issued, stdout, um_log>>

----------------------------------------------------------------------------

TagListArgs ==
    [tag_list : SeqsUpTo(OpTags, MaxTags), keys : SeqsUpTo(OpKeys, MaxArgs)]

Init ==
    /\ \/ op \in {"exclude_tags", "filter_tags", "divide_tags"}
          /\ args \in TagListArgs
       \/ op = "remove_duplicates"
          /\ args \in [list : SeqsUpTo(Dicts, MaxDicts)]
       \/ op = "valid_tags"
          /\ args \in [tag_list : SeqsUpTo(KeyedTags, MaxValidTags)]
       \/ op = "delete_tags"
          /\ args \in [resourceIds : SeqsUpTo(ResourceIds, MaxIds),
                       tags : TagsToDelete]
       \/ op = "stdout_message"
          /\ \E m \in 1..Len(Messages), p \in 1..Len(Prefixes),
                i \in 1..Len(Indents), s \in 1..Len(Severities),
                quiet \in BOOLEAN, multiline \in BOOLEAN, logging \in BOOLEAN :
                args = [message |-> Messages[m], prefix |-> Prefixes[p],
                        quiet |-> quiet, multiline |-> multiline,
                        indent |-> Indents[i], severity |-> Severities[s],
                        logging |-> logging]
    /\ ret = Unset
    /\ pc = "call"
    /\ dt_issued = <<>>
    /\ dt_answers = <<>>
    /\ dt_log = <<>>
    /\ stdout = <<>>
    /\ um_log = <<>>

Next ==
    \/ CallExcludeTags
    \/ CallFilterTags
    \/ CallDivideTags
    \/ CallRemoveDuplicates
    \/ CallValidTags
    \/ CallStdoutMessage
    \/ DeleteTagsRequest
    \/ DeleteTagsFallThrough
    \/ DeleteTagsResponse
    \/ DeleteTagsClientError

Spec == Init /\ [][Next]_vars

----------------------------------------------------------------------------
(* Properties of the tag helpers *)

Returned(name) == op = name /\ pc = "done"

InKeys(k, keys) == \E j \in 1..Len(keys) : keys[j] = k

UniqueKeys(tag_list) ==
    \A i, j \in 1..Len(tag_list) :
        tag_list[i].Key = tag_list[j].Key => i = j

Elems(l) == {l[i] : i \in 1..Len(l)}

\* C1: exclude_tags(tag_list, *args) returns normally, for every tag list
\* and every args (repeated keys included), the tags of tag_list whose key
\* is not in args, in their original order, and nothing else.
C1_ExcludeReturnsOthersInOrder ==
    Returned("exclude_tags") =>
        /\ ret.exc = "none"
        /\ ret.val = SelectSeq(args.tag_list,
                               LAMBDA t : ~InKeys(t.Key, args.keys))

\* index of the first dict of list that carries key k
FirstIndex(list, k) ==
    CHOOSE i \in 1..Len(list) :
        list[i].Key = k /\ \A j \in 1..(i - 1) : list[j].Key # k

\* C2: when every element has a 'Key', remove_duplicates returns for each
\* distinct key of the input exactly the first tag carrying it, in the
\* order of the first occurrences, and no later tag of a key already seen.
C2_DedupKeepsFirstPerKey ==
    (Returned("remove_duplicates")
     /\ \A i \in 1..Len(args.list) : HasKey(args.list[i])) =>
        /\ ret.exc = "none"
        /\ {ret.val[p].Key : p \in 1..Len(ret.val)}
              = {args.list[i].Key : i \in 1..Len(args.list)}
        /\ \A p \in 1..Len(ret.val) :
              ret.val[p] = args.list[FirstIndex(args.list, ret.val[p].Key)]
        /\ \A p, q \in 1..Len(ret.val) :
              p < q => FirstIndex(args.list, ret.val[p].Key)
                         < FirstIndex(args.list, ret.val[q].Key)

C2_Witness ==
    /\ Returned("remove_duplicates")
    /\ \A i \in 1..Len(args.list) : HasKey(args.list[i])
    /\ Len(args.list) = 3
    /\ args.list[1].Key # args.list[2].Key
    /\ args.list[3].Key = args.list[1].Key
    /\ args.list[3].Value # args.list[1].Value
    /\ ret.exc = "none"
    /\ ret.val = <<args.list[1], args.list[2]>>

\* C3: valid_tags returns False exactly when the 'Key' of some tag holds
\* the character ':', and True otherwise (the empty list included); the
\* values of the tags play no part.
C3_ValidIffNoColonInAnyKey ==
    Returned("valid_tags") =>
        /\ ret.exc = "none"
        /\ ret.val.type = "bool"
        /\ ret.val.val = FALSE <=>
              \E i \in 1..Len(args.tag_list) :
                 \E p \in 1..Len(args.tag_list[i].Key) :
                    args.tag_list[i].Key[p] = ":"

C3_Witness ==
    /\ Returned("valid_tags")
    /\ Len(args.tag_list) = 2
    /\ args.tag_list[1].Key = <<"a">>
    /\ args.tag_list[2].Key = <<"a", ":">>
    /\ args.tag_list[1].Value # args.tag_list[2].Value
    /\ ret = Return(PyBool(FALSE))

\* an answer of the service that is not a success
Failure(answer) ==
    PyEq(answer, PyStr("ClientError"))
      \/ (answer.type = "int" /\ answer.val # HTTP_OK)

\* C4: for every resourceIds (the empty list included) and every outcome
\* of the delete call, delete_tags returns a boolean: False when a call
\* raised ClientError (logged at critical level) or answered with a status
\* other than 200, True otherwise; no exception reaches the caller.
C4_DeleteReturnsBoolean ==
    Returned("delete_tags") =>
        /\ ret.exc = "none"
        /\ ret.val.type = "bool"
        /\ ret.val.val = FALSE <=>
              \E i \in 1..Len(dt_answers) : Failure(dt_answers[i])
        /\ \A i \in 1..Len(dt_answers) :
              PyEq(dt_answers[i], PyStr("ClientError")) =>
                 \E n \in 1..Len(dt_log) : dt_log[n] = "critical"

\* C5: delete_tags issues one delete request per resource id, in order,
\* and returns True only if the request of every resource id was issued
\* and answered with status 200.
C5_TrueOnlyIfEveryIdDeleted ==
    (Returned("delete_tags") /\ ret.exc = "none"
     /\ PyEq(ret.val, PyBool(TRUE))) =>
        /\ Len(dt_issued) = Len(args.resourceIds)
        /\ Len(dt_answers) = Len(args.resourceIds)
        /\ \A i \in 1..Len(args.resourceIds) :
              /\ dt_issued[i].Resources = <<args.resourceIds[i]>>
              /\ PyEq(dt_answers[i], PyInt(HTTP_OK))

\* C7: for a tag list with unique keys, divide_tags returns (matching,
\* residual) that split the tags: matching holds exactly the tags whose
\* key is in args, residual exactly the others, and no tag is in both
\* (a single tag whose key is in args included).
C7_DividePartitions ==
    (Returned("divide_tags") /\ UniqueKeys(args.tag_list)) =>
        /\ ret.exc = "none"
        /\ Elems(ret.val[1])
              = {t \in Elems(args.tag_list) : InKeys(t.Key, args.keys)}
        /\ Elems(ret.val[2])
              = {t \in Elems(args.tag_list) : ~InKeys(t.Key, args.keys)}
        /\ Elems(ret.val[1]) \cap Elems(ret.val[2]) = {}

\* C10: whatever list of dicts remove_duplicates gets (dicts without 'Key'
\* included), no two elements of the list it returns carry the same 'Key'.
C10_DedupResultHasUniqueKeys ==
    Returned("remove_duplicates") =>
        /\ ret.exc = "none"
        /\ \A p, q \in 1..Len(ret.val) :
              (HasKey(ret.val[p]) /\ HasKey(ret.val[q])
               /\ ret.val[p].Key = ret.val[q].Key) => p = q

----------------------------------------------------------------------------
(* Properties of stdout_message *)

\* the arguments every step of stdout_message can process
WellFormedCall ==
    /\ args.prefix.type = "str"
    /\ PyIntOf(args.indent).exc = "none"
    /\ args.severity.type = "str"
    /\ args.message.type = "str"

InStatusLists(prefix) ==
    PyIn(prefix, critical_status) \/ PyIn(prefix, warning_status)

PrintedMessage ==
    Len(stdout) = 1 /\ stdout[1].kind = "message"

\* C6: stdout_message never raises to its caller: an error met while it
\* handles the prefix, the indent, the header, the print or the logger is
\* caught, reported on standard output and turned into a return of False.
C6_StdoutMessageNeverRaises ==
    Returned("stdout_message") =>
        /\ ret.exc = "none"
        /\ ~WellFormedCall /\ ~args.quiet =>
              PyEq(ret.val, PyBool(FALSE)) /\ stdout # <<>>

\* C8: with quiet False and a non-empty severity, the call is rejected
\* only if the upper-cased prefix is in neither critical_status nor
\* warning_status; when the prefix is in one of them the message is
\* printed, the header is red for severity 'CRITICAL', and the call
\* returns True.
C8_SeverityAcceptsStatusPrefixes ==
    (Returned("stdout_message") /\ WellFormedCall /\ ~args.quiet
     /\ args.severity.val # <<>>
     /\ InStatusLists(PyStr(StrUpper(args.prefix.val)))) =>
        /\ PyEq(ret.val, PyBool(TRUE))
        /\ PrintedMessage
        /\ StrUpper(args.severity.val) = <<"C", "R", "I", "T", "I", "C", "A", "L">>
              => stdout[1].header.colour = "RED"

\* the table of the module's docstring
TableColour(prefix) ==
    IF PyIn(prefix, critical_status) THEN "RED"
    ELSE IF PyIn(prefix, warning_status) THEN "ORANGE"
    ELSE IF PyEq(prefix, PyStr(<<"O", "K">>)) THEN "GREEN"
    ELSE "DARKCYAN"

\* C9: with quiet False and an empty severity, the colour of the header
\* follows the upper-cased prefix as the module's table says: red for the
\* members of critical_status, orange for the members of warning_status,
\* green for OK, cyan for INFO and any other prefix.
C9_HeaderColourFollowsTable ==
    (Returned("stdout_message") /\ WellFormedCall /\ ~args.quiet
     /\ args.severity.val = <<>>) =>
        /\ PrintedMessage
        /\ stdout[1].header.colour
              = TableColour(PyStr(StrUpper(args.prefix.val)))

=============================================================================
